---- MODULE Spec2Model ----
(***************************************************************************)
(* Model of src/app.py: the FX margin-trading simulator.                   *)
(*                                                                         *)
(* Number representation (the source computes in Python floats; the model  *)
(* computes the same expressions in exact rational arithmetic):            *)
(*   - money (deposit, per_lot_margin, fees) is an integer number of yen;  *)
(*   - an exchange rate (s0, s1) is an integer number of tenths            *)
(*     (RateScale), the resolution of the "%.1f" inputs;                   *)
(*   - the leverage field leff is an integer number of hundredths          *)
(*     (LeffScale), the resolution round(., 2) produces;                   *)
(*   - a price path of n points is a sequence of integer numerators over   *)
(*     the common denominator RateScale * Scale(n), Scale(n) = max(1,n-1); *)
(*   - a daily money series of n entries is a sequence of integer          *)
(*     numerators over Scale(n); an equity entry is [yen, frac] meaning    *)
(*     yen + frac / Scale(n).                                              *)
(* Where the float result of round(x, 2) depends on the binary rounding of *)
(* x (x exactly halfway between two hundredths), both neighbours are       *)
(* possible outcomes.                                                      *)
(*                                                                         *)
(* Streamlit runs an on_change callback before the script body of the      *)
(* rerun.  A widget with key= has already written its new value into       *)
(* st.session_state when its callback runs; a widget without key= returns  *)
(* its new value only when the script body reaches it, so the assignment   *)
(* st.session_state.x = st.number_input(...) happens after the callback.   *)
(* Widget identity (Streamlit rebuilding a key-less widget whose value=    *)
(* argument changed) is not modelled: every edit is taken to arrive.       *)
(***************************************************************************)
EXTENDS Integers, Sequences, FiniteSets, TLC

VARIABLES session_state, dir_sign, swap_per_lot_per_day, prices, sm,
          kpi, log, edited, entered, pc

vars == <<session_state, dir_sign, swap_per_lot_per_day, prices, sm,
          kpi, log, edited, entered, pc>>

\* ---------------------------------------------------------------- constants
LOT_UNITS == 100000

FEE_PER_LOT_PER_SIDE == 1100

\* rates are held in tenths (step=0.1, format="%.1f")
RateScale == 10

\* leverage is held in hundredths (round(leff_actual, 2))
LeffScale == 100

\* min_value=0.1 of the leverage widget and the floor max(0.1, .), in hundredths
LeffMin == 10

\* ------------------------------------------------------------------- bounds
\* SpecSim draws days from -1 .. MaxDays (and the 365-day scenario)
MaxDays == 3

\* SpecSim draws lots from 0 .. MaxLots (and the 33-lot scenario)
MaxLots == 2

\* the days slider offers 30, 35, ... : 30 + 5 * k for k in 0 .. MaxSliderSteps
MaxSliderSteps == 0

\* ----------------------------------------------------------- input domains
DepositChoices == {0, 8000000, 10000000}

MarginChoices == {0, 40000, 50000}

LeffChoices == {10, 300, 2500}

LotsChoices == {1, 10, 38, 300}

S0Choices == {0, 78, 80}

S1Choices == {78, 82}

DaysChoices == {30 + 5 * k : k \in 0..MaxSliderSteps}

SwapChoices == {0, 150}

\* ------------------------------------------------------------------ helpers
Max(a, b) == IF a >= b THEN a ELSE b

Min(a, b) == IF a <= b THEN a ELSE b

Abs(a) == IF a < 0 THEN 0 - a ELSE a

\* floor of the rational num / den (den >= 0); a division by zero is the
\* NaN / infinity case, which yields 0
safe_floor(num, den) == IF den = 0 THEN 0 ELSE num \div den

\* floor(a * 10^k / d) and its remainder, by long division (no intermediate
\* product exceeds 10 * d)
RECURSIVE ScaledDiv(_, _, _, _)
ScaledDiv(q, r, d, k) ==
    IF k = 0 THEN [q |-> q, r |-> r, d |-> d]
    ELSE ScaledDiv(q * 10 + (r * 10) \div d, (r * 10) % d, d, k - 1)

\* the quotient lots * s0 * LOT_UNITS / deposit, in hundredths:
\* lots * s0T * 10^6 / deposit as [q, r, d] = q + r / d
LeverageOf(lots, s0, deposit) ==
    ScaledDiv((lots * s0) \div deposit, (lots * s0) % deposit, deposit, 6)

\* round(x, 2) of x = q + r / d hundredths: the nearest hundredth; at an exact
\* half the float's binary rounding decides, so both neighbours are possible
Round2(x) ==
    IF 2 * x.r < x.d THEN {x.q}
    ELSE IF 2 * x.r > x.d THEN {x.q + 1}
    ELSE {x.q, x.q + 1}

\* ------------------------------------------------------------------- sizing
\* lots_cap_by_margin without the floor of 1
lots_cap_unfloored(deposit, per_lot_margin) ==
    safe_floor(deposit, Max(1, per_lot_margin))

\* lots_cap_by_margin: max(1, safe_floor(deposit / max(1.0, per_lot_margin)))
lots_cap_by_margin(deposit, per_lot_margin) ==
    Max(1, safe_floor(deposit, Max(1, per_lot_margin)))

\* leff * deposit in units of 100 yen, floored: floor(leffH * deposit / 10^4)
\* evaluated without forming leffH * deposit
LevNotional(leff, deposit) ==
    leff * (deposit \div 10000) + (leff * (deposit % 10000)) \div 10000

\* lots_from_leverage: floor((leff * deposit) / (s0 * LOT_UNITS)), at least 1;
\* in model units floor(leffH * deposit / (s0T * 10^6))
\*   = floor(floor(leffH * deposit / 10^4) / (s0T * 100))
lots_from_leverage(leff, deposit, s0) ==
    IF s0 <= 0 THEN 1
    ELSE Max(1, safe_floor(LevNotional(leff, deposit),
                           s0 * (LOT_UNITS \div (RateScale * LeffScale))))

\* edited and entered record the widget the user changed last and the value
\* given to it; log records the callback functions that ran in the last
\* rerun.  They are observations of the run, not fields of the program.
\*
\* A handler works on a context c = [ss |-> st.session_state, log |-> the
\* functions entered so far in this rerun].  Each handler returns the set of
\* contexts it can finish in.
Enter(c, name) == [c EXCEPT !.log = Append(@, name)]

SetLock(c, b) == [c EXCEPT !.ss.lock = b]

Unlock(cs) == {SetLock(c, FALSE) : c \in cs}

\* _recalc_from_leff
recalc_from_leff(c) ==
    LET ss == c.ss
        cap == lots_cap_by_margin(ss.deposit, ss.per_lot_margin)
        lots_lev == lots_from_leverage(ss.leff, ss.deposit, ss.s0)
    IN  {[Enter(c, "_recalc_from_leff") EXCEPT !.ss.lots = Max(1, Min(lots_lev, cap))]}

\* _recalc_from_lots without the clamp to the margin cap
recalc_from_lots_uncapped(c) ==
    LET lots == Max(1, c.ss.lots)
        c1 == [Enter(c, "_recalc_from_lots") EXCEPT !.ss.lots = lots]
    IN  IF c.ss.deposit > 0 /\ c.ss.s0 > 0
        THEN {[c1 EXCEPT !.ss.leff = Max(LeffMin, r)] :
                 r \in Round2(LeverageOf(lots, c.ss.s0, c.ss.deposit))}
        ELSE {c1}

\* _recalc_from_lots
recalc_from_lots(c) ==
    LET ss == c.ss
        cap == lots_cap_by_margin(ss.deposit, ss.per_lot_margin)
        lots == Max(1, Min(ss.lots, cap))
        c1 == [Enter(c, "_recalc_from_lots") EXCEPT !.ss.lots = lots]
    IN  IF ss.deposit > 0 /\ ss.s0 > 0
        THEN {[c1 EXCEPT !.ss.leff = Max(LeffMin, r)] :
                 r \in Round2(LeverageOf(lots, ss.s0, ss.deposit))}
        ELSE {c1}

\* on_change_deposit
on_change_deposit(c) ==
    IF c.ss.lock THEN {c}
    ELSE Unlock(recalc_from_leff(SetLock(Enter(c, "on_change_deposit"), TRUE)))

\* on_change_margin
on_change_margin(c) ==
    IF c.ss.lock THEN {c}
    ELSE Unlock(recalc_from_leff(SetLock(Enter(c, "on_change_margin"), TRUE)))

\* on_change_leff
on_change_leff(c) ==
    IF c.ss.lock THEN {c}
    ELSE Unlock(recalc_from_leff(SetLock(Enter(c, "on_change_leff"), TRUE)))

\* on_change_lots that never resets the lock
on_change_lots_stays_locked(c) ==
    IF c.ss.lock THEN {c}
    ELSE recalc_from_lots(SetLock(Enter(c, "on_change_lots"), TRUE))

\* on_change_lots
on_change_lots(c) ==
    IF c.ss.lock THEN {c}
    ELSE Unlock(recalc_from_lots(SetLock(Enter(c, "on_change_lots"), TRUE)))

\* on_change_s0
on_change_s0(c) ==
    IF c.ss.lock THEN {c}
    ELSE Unlock(recalc_from_leff(SetLock(Enter(c, "on_change_s0"), TRUE)))

\* leff_actual of the script body (0.0 when deposit or s0 is not positive),
\* as [q, r, d] hundredths
LeffActual(ss) ==
    IF ss.deposit > 0 /\ ss.s0 > 0
    THEN LeverageOf(ss.lots, ss.s0, ss.deposit)
    ELSE [q |-> 0, r |-> 0, d |-> 1]

\* --------------------------------------------------------------- price path
\* the common denominator of a path or series of n points
Scale(n) == Max(1, n - 1)

\* build_prices_linear without days = max(1, int(days))
build_prices_unclamped(days, s0, s1) ==
    [i \in 1..(days + 1) |-> s0 * days + (s1 - s0) * (i - 1)]

\* build_prices_linear: np.linspace(s0, s1, days + 1) after days = max(1, days);
\* point i (1-based) is s0 + (s1 - s0) * (i - 1) / days, held as the numerator
\* over RateScale * days
build_prices_linear(days, s0, s1) ==
    LET d == Max(1, days)
    IN  [i \in 1..(d + 1) |-> s0 * d + (s1 - s0) * (i - 1)]

\* ------------------------------------------------------------ compute_series
\* an amount of money num / d as whole yen and a fraction frac / d
Q(num, d) == [yen |-> num \div d, frac |-> num % d]

QAdd(a, b, d) ==
    [yen |-> a.yen + b.yen + (a.frac + b.frac) \div d,
     frac |-> (a.frac + b.frac) % d]

QNeg(a, d) ==
    IF a.frac = 0 THEN [yen |-> 0 - a.yen, frac |-> 0]
    ELSE [yen |-> 0 - a.yen - 1, frac |-> d - a.frac]

QIsNeg(a) == a.yen < 0

QAbs(a, d) == IF QIsNeg(a) THEN QNeg(a, d) ELSE a

QZero == [yen |-> 0, frac |-> 0]

\* the sum of s[lo .. hi], a series over the denominator d (summed by halves)
RECURSIVE SumRange(_, _, _, _)
SumRange(s, lo, hi, d) ==
    IF lo > hi THEN QZero
    ELSE IF lo = hi THEN s[lo]
    ELSE LET mid == (lo + hi) \div 2
         IN  QAdd(SumRange(s, lo, mid, d), SumRange(s, mid + 1, hi, d), d)

\* ndarray.sum()
SeqSum(s) == SumRange(s, 1, Len(s), Scale(Len(s)))

\* np.cumsum(s)[i - 1]: the sum of the first i entries
CumSumAt(s, i) == SumRange(s, 1, i, Scale(Len(s)))

\* diff = np.diff(prices, prepend=prices[0]), numerators over RateScale * Scale(n)
Diff(p) == [i \in 1..Len(p) |-> IF i = 1 THEN 0 ELSE p[i] - p[i - 1]]

\* swap_per_lot_effective without abs(): the raw sign of the input leaks through
swap_per_lot_signed(direction_sign, swap_input) ==
    (IF direction_sign = 1 THEN 1 ELSE 0 - 1) * swap_input

\* swap_per_lot_effective
swap_per_lot_effective(direction_sign, swap_input) ==
    (IF direction_sign = 1 THEN 1 ELSE 0 - 1) * Abs(swap_input)

\* swap accruing from day 0: swap[:] = daily_swap
SwapFromDay0(n, lots, direction_sign, swap_input) ==
    [i \in 1..n |-> [yen |-> (IF direction_sign = 1 THEN 1 ELSE 0 - 1)
                               * Abs(swap_input) * lots,
                     frac |-> 0]]

\* swap = zeros(n); swap[1:] = daily_swap
Swap(n, lots, direction_sign, swap_input) ==
    LET daily_swap == swap_per_lot_effective(direction_sign, swap_input) * lots
    IN  [i \in 1..n |-> IF n > 1 /\ i > 1 THEN [yen |-> daily_swap, frac |-> 0]
                        ELSE QZero]

\* pnl_fx = direction_sign * diff * units
PnlFx(p, lots, direction_sign) ==
    LET units == lots * LOT_UNITS
        diff == Diff(p)
    IN  [i \in 1..Len(p) |->
            Q(direction_sign * diff[i] * (units \div RateScale), Scale(Len(p)))]

\* fee charged at the open only
FeeOpenOnly(n, lots) ==
    [i \in 1..n |-> IF i = 1 /\ lots > 0
                    THEN [yen |-> 0 - FEE_PER_LOT_PER_SIDE * lots, frac |-> 0]
                    ELSE QZero]

\* fee = zeros(n); fee[0] -= ... ; fee[-1] -= ...
Fee(n, lots) ==
    LET f0 == [i \in 1..n |-> QZero]
        f1 == IF n >= 1 /\ lots > 0
              THEN [f0 EXCEPT ![1].yen = @ - FEE_PER_LOT_PER_SIDE * lots]
              ELSE f0
    IN  IF n >= 2 /\ lots > 0
        THEN [f1 EXCEPT ![n].yen = @ - FEE_PER_LOT_PER_SIDE * lots]
        ELSE f1

\* pnl_total = pnl_fx + swap + fee
PnlTotal(p, lots, direction_sign, swap_input) ==
    LET n == Len(p)
        fx == PnlFx(p, lots, direction_sign)
        sw == Swap(n, lots, direction_sign, swap_input)
        fe == Fee(n, lots)
    IN  [i \in 1..n |-> QAdd(QAdd(fx[i], sw[i], Scale(n)), fe[i], Scale(n))]

\* equity = initial_deposit + np.cumsum(pnl_total), entry i (1-based)
Equity(p, initial_deposit, lots, direction_sign, swap_input, i) ==
    QAdd([yen |-> initial_deposit, frac |-> 0],
         CumSumAt(PnlTotal(p, lots, direction_sign, swap_input), i),
         Scale(Len(p)))

\* compute_series: the summary dictionary; den is the denominator of the
\* frac parts
compute_series(p, initial_deposit, lots, direction_sign, swap_input) ==
    LET n == Len(p)
        d == Scale(n)
        fx_total == SeqSum(PnlFx(p, lots, direction_sign))
        swap_total == SeqSum(Swap(n, lots, direction_sign, swap_input))
        fee_total == SeqSum(Fee(n, lots))
        fee_abs == QAbs(fee_total, d)
        end_equity == Equity(p, initial_deposit, lots, direction_sign, swap_input, n)
    IN  [den |-> d,
         end_equity |-> end_equity,
         fx_fee_inclusive |-> QAdd(fx_total, QNeg(fee_abs, d), d),
         swap_total |-> swap_total,
         total_pnl |-> [end_equity EXCEPT !.yen = @ - initial_deposit],
         fee_total |-> fee_total]

\* ------------------------------------------------------------ the session
\* defaults, written by st.session_state.setdefault on the first run
defaults ==
    [deposit |-> 10000000, per_lot_margin |-> 40000, leff |-> 300, lots |-> 33,
     s0 |-> 78, s1 |-> 82, days |-> 365, lock |-> FALSE]

\* the captions below the KPI tiles
Kpi(ss) ==
    [leff_actual |-> LeffActual(ss),
     need_margin_total |-> ss.per_lot_margin * ss.lots,
     cap_display |-> lots_cap_by_margin(ss.deposit, ss.per_lot_margin)]

\* the script body after the sidebar, run on the session state ss the sidebar
\* left behind.  build_prices_linear and compute_series are pure and their
\* result is only rendered; they are run under SpecSim, and prices and sm keep
\* their initial value here.
Script(ss, dir, swap) ==
    /\ session_state' = ss
    /\ dir_sign' = dir
    /\ swap_per_lot_per_day' = swap
    /\ kpi' = Kpi(ss)
    /\ UNCHANGED <<prices, sm, pc>>

\* no simulation has run
NoSummary ==
    [den |-> 1, end_equity |-> QZero, fx_fee_inclusive |-> QZero,
     swap_total |-> QZero, total_pnl |-> QZero, fee_total |-> QZero]

Start(ss) == [ss |-> ss, log |-> <<>>]

Init ==
    /\ session_state = defaults
    /\ dir_sign = 1
    /\ swap_per_lot_per_day = 150
    /\ prices = <<>>
    /\ sm = NoSummary
    /\ kpi = Kpi(defaults)
    /\ log = <<>>
    /\ edited = "none"
    /\ entered = 0
    /\ pc = "ui"

\* the deposit widget has no key: on_change_deposit runs on the session state
\* as it was, then the script body assigns the widget's value
EditDeposit ==
    /\ pc = "ui"
    /\ \E v \in DepositChoices \ {session_state.deposit} :
       \E c \in on_change_deposit(Start(session_state)) :
          /\ Script([c.ss EXCEPT !.deposit = v], dir_sign, swap_per_lot_per_day)
          /\ log' = c.log
          /\ entered' = v
    /\ edited' = "deposit"

\* the per_lot_margin widget has no key
EditMargin ==
    /\ pc = "ui"
    /\ \E v \in MarginChoices \ {session_state.per_lot_margin} :
       \E c \in on_change_margin(Start(session_state)) :
          /\ Script([c.ss EXCEPT !.per_lot_margin = v], dir_sign, swap_per_lot_per_day)
          /\ log' = c.log
          /\ entered' = v
    /\ edited' = "per_lot_margin"

\* the leff widget has key="leff": the new value is in the session state when
\* on_change_leff runs
EditLeff ==
    /\ pc = "ui"
    /\ \E v \in LeffChoices \ {session_state.leff} :
       \E c \in on_change_leff(Start([session_state EXCEPT !.leff = v])) :
          /\ Script(c.ss, dir_sign, swap_per_lot_per_day)
          /\ log' = c.log
          /\ entered' = v
    /\ edited' = "leff"

\* the lots widget has key="lots"
EditLots ==
    /\ pc = "ui"
    /\ \E v \in LotsChoices \ {session_state.lots} :
       \E c \in on_change_lots(Start([session_state EXCEPT !.lots = v])) :
          /\ Script(c.ss, dir_sign, swap_per_lot_per_day)
          /\ log' = c.log
          /\ entered' = v
    /\ edited' = "lots"

\* the direction radio: no callback
EditDirection ==
    /\ pc = "ui"
    /\ Script(session_state, 0 - dir_sign, swap_per_lot_per_day)
    /\ log' = <<>>
    /\ entered' = 0 - dir_sign
    /\ edited' = "direction"

\* the swap input: no callback
EditSwap ==
    /\ pc = "ui"
    /\ \E v \in SwapChoices \ {swap_per_lot_per_day} :
          /\ Script(session_state, dir_sign, v)
          /\ entered' = v
    /\ log' = <<>>
    /\ edited' = "swap"

\* the s0 widget has no key
EditS0 ==
    /\ pc = "ui"
    /\ \E v \in S0Choices \ {session_state.s0} :
       \E c \in on_change_s0(Start(session_state)) :
          /\ Script([c.ss EXCEPT !.s0 = v], dir_sign, swap_per_lot_per_day)
          /\ log' = c.log
          /\ entered' = v
    /\ edited' = "s0"

\* the s1 widget: no callback
EditS1 ==
    /\ pc = "ui"
    /\ \E v \in S1Choices \ {session_state.s1} :
          /\ Script([session_state EXCEPT !.s1 = v], dir_sign, swap_per_lot_per_day)
          /\ entered' = v
    /\ log' = <<>>
    /\ edited' = "s1"

\* the days slider: no callback
EditDays ==
    /\ pc = "ui"
    /\ \E v \in DaysChoices \ {session_state.days} :
          /\ Script([session_state EXCEPT !.days = v], dir_sign, swap_per_lot_per_day)
          /\ entered' = v
    /\ log' = <<>>
    /\ edited' = "days"

Next ==
    \/ EditDeposit
    \/ EditMargin
    \/ EditLeff
    \/ EditLots
    \/ EditDirection
    \/ EditSwap
    \/ EditS0
    \/ EditS1
    \/ EditDays

Spec == Init /\ [][Next]_vars

\* ------------------------------------------------- one simulation, any input
\* SpecSim: the path builder and the engine applied once to inputs drawn from
\* the sets below (days and lots outside what the widgets allow included)
SimDays == ((0 - 1)..MaxDays) \cup {defaults.days}

SimLots == (0..MaxLots) \cup {defaults.lots}

SimRates == {78, 80, 82}

SimDeposits == {0, defaults.deposit}

SimSwaps == {0 - 150, 0, 150}

SimInit ==
    /\ session_state \in
          {[defaults EXCEPT !.deposit = dp, !.lots = l, !.s0 = a, !.s1 = b, !.days = n] :
              dp \in SimDeposits, l \in SimLots, a \in SimRates, b \in SimRates,
              n \in SimDays}
    /\ dir_sign \in {1, 0 - 1}
    /\ swap_per_lot_per_day \in SimSwaps
    /\ prices = <<>>
    /\ sm = NoSummary
    /\ kpi = Kpi(session_state)
    /\ log = <<>>
    /\ edited = "none"
    /\ entered = 0
    /\ pc = "input"

\* prices = build_prices_linear(days, s0, s1)
SimBuild ==
    /\ pc = "input"
    /\ prices' = build_prices_linear(session_state.days, session_state.s0,
                                     session_state.s1)
    /\ pc' = "built"
    /\ UNCHANGED <<session_state, dir_sign, swap_per_lot_per_day, sm, kpi, log,
                   edited, entered>>

\* sm = compute_series(prices, deposit, lots, dir_sign, swap_per_lot_per_day)
SimCompute ==
    /\ pc = "built"
    /\ sm' = compute_series(prices, session_state.deposit, session_state.lots,
                            dir_sign, swap_per_lot_per_day)
    /\ pc' = "done"
    /\ UNCHANGED <<session_state, dir_sign, swap_per_lot_per_day, prices, kpi,
                   log, edited, entered>>

SimNext ==
    \/ SimBuild
    \/ SimCompute

SpecSim == SimInit /\ [][SimNext]_vars

\* ------------------------------------------------------------------ claims
ss == session_state

Ran == pc = "done"

\* C8: build_prices_linear(days, s0, s1) returns days + 1 points after days
\* below 1 is clamped to 1 (so at least 2 points), the first is s0, the last
\* is s1, and the step between consecutive points is constant.
C8_PricePath ==
    pc \in {"built", "done"} =>
        LET d == Max(1, ss.days)
            n == Len(prices)
        IN  /\ n = d + 1
            /\ n >= 2
            /\ ss.days >= 1 => n = ss.days + 1
            \* numerators over RateScale * d
            /\ prices[1] = ss.s0 * d
            /\ prices[n] = ss.s1 * d
            /\ \A i \in 2..n : prices[i] - prices[i - 1] = prices[2] - prices[1]

C8_Witness ==
    /\ pc = "built"
    /\ ss.days = 0
    /\ Len(prices) = 2
    /\ prices[1] = ss.s0
    /\ prices[2] = ss.s1
    /\ ss.s0 # ss.s1

NonZeroFees == {i \in 1..Len(prices) : Fee(Len(prices), ss.lots)[i] # QZero}

\* C4 as stated: two fee entries and sum(fee) = -2 * 1100 * lots when
\* days >= 1 and lots > 0; only the open leg and sum(fee) = -1100 * lots when
\* days = 0; fee total <= 0 always.
C4_Original ==
    Ran =>
        /\ (ss.days >= 1 /\ ss.lots > 0) =>
               /\ NonZeroFees = {1, Len(prices)}
               /\ sm.fee_total = [yen |-> 0 - 2 * FEE_PER_LOT_PER_SIDE * ss.lots, frac |-> 0]
        /\ (ss.days = 0 /\ ss.lots > 0) =>
               /\ NonZeroFees = {1}
               /\ sm.fee_total = [yen |-> 0 - FEE_PER_LOT_PER_SIDE * ss.lots, frac |-> 0]
        /\ sm.fee_total.yen <= 0

\* C4 amended: for every days value (one below 1 is clamped to 1 by the path
\* builder, so days = 0 still has a close leg) and lots > 0 the fee series has
\* exactly two non-zero entries, the first and the last, each -1100 * lots,
\* and sum(fee) = -2 * 1100 * lots; the fee total is <= 0 in all cases.
C4_FeeLegs ==
    Ran =>
        /\ ss.lots > 0 =>
               /\ NonZeroFees = {1, Max(1, ss.days) + 1}
               /\ \A i \in NonZeroFees :
                      Fee(Len(prices), ss.lots)[i]
                          = [yen |-> 0 - FEE_PER_LOT_PER_SIDE * ss.lots, frac |-> 0]
               /\ sm.fee_total = [yen |-> 0 - 2 * FEE_PER_LOT_PER_SIDE * ss.lots, frac |-> 0]
        /\ sm.fee_total.yen <= 0
        /\ sm.fee_total.frac = 0

C4_Witness ==
    /\ Ran
    /\ ss.days = 0
    /\ ss.lots = 2
    /\ sm.fee_total.yen = 0 - 4400

Scenario ==
    /\ ss.deposit = 10000000
    /\ ss.lots = 33
    /\ ss.s0 = 78
    /\ ss.s1 = 82
    /\ ss.days = 365
    /\ dir_sign = 1
    /\ swap_per_lot_per_day = 150

\* the closed form of the ending equity, in whole yen
ClosedFormEquity ==
    ss.deposit
    + dir_sign * ss.lots * (LOT_UNITS \div RateScale) * (ss.s1 - ss.s0)
    + dir_sign * Abs(swap_per_lot_per_day) * ss.lots * ss.days
    - 2 * FEE_PER_LOT_PER_SIDE * ss.lots

\* C5 as stated: with days >= 1 and lots >= 1 the ending equity is
\* deposit + sign * lots * 100000 * (s1 - s0) + sign * |swap| * lots * days
\* - 2 * 1100 * lots, the total P&L is ending equity - deposit, and the
\* scenario (10,000,000; 33 lots; 7.8 -> 8.2; 365 days; Long; swap 150) ends
\* at 13,051,900.
C5_Original ==
    (Ran /\ ss.days >= 1 /\ ss.lots >= 1) =>
        /\ sm.end_equity = [yen |-> ClosedFormEquity, frac |-> 0]
        /\ sm.total_pnl = [yen |-> sm.end_equity.yen - ss.deposit, frac |-> 0]
        /\ Scenario => sm.end_equity.yen = 13051900

\* C5 amended: the same closed form and total P&L; the scenario's swap total
\* is 150 * 33 * 365 = 1,806,750 and it ends at 13,054,150.
C5_EndingEquity ==
    (Ran /\ ss.days >= 1 /\ ss.lots >= 1) =>
        /\ sm.end_equity = [yen |-> ClosedFormEquity, frac |-> 0]
        /\ sm.total_pnl = [yen |-> sm.end_equity.yen - ss.deposit, frac |-> 0]
        /\ Scenario =>
              /\ sm.swap_total = [yen |-> 1806750, frac |-> 0]
              /\ sm.end_equity.yen = 13054150

C5_Witness ==
    /\ Ran
    /\ Scenario
    /\ sm.end_equity = [yen |-> 13054150, frac |-> 0]
    /\ sm.swap_total.yen = 1806750
    /\ sm.fee_total.yen = 0 - 72600

Opposite ==
    compute_series(prices, ss.deposit, ss.lots, 0 - dir_sign, swap_per_lot_per_day)

RawSignFlipped ==
    compute_series(prices, ss.deposit, ss.lots, dir_sign, 0 - swap_per_lot_per_day)

\* C6: for the same path, deposit, lots and swap magnitude, Long and Short
\* have entrywise negated FX P&L and swap series (hence negated totals), the
\* same fee series and a zero FX move on day 0; the swap sign follows the
\* direction whatever the sign of the raw swap input.
C6_DirectionFlip ==
    Ran =>
        LET n == Len(prices)
            d == Scale(n)
            long == PnlFx(prices, ss.lots, 1)
            short == PnlFx(prices, ss.lots, 0 - 1)
            swl == Swap(n, ss.lots, 1, swap_per_lot_per_day)
            sws == Swap(n, ss.lots, 0 - 1, swap_per_lot_per_day)
        IN  /\ \A i \in 1..n : short[i] = QNeg(long[i], d)
            /\ \A i \in 1..n : sws[i] = QNeg(swl[i], d)
            /\ long[1] = QZero /\ short[1] = QZero
            /\ \A i \in 1..n : swl[i].yen >= 0 /\ sws[i].yen <= 0
            /\ Opposite.swap_total = QNeg(sm.swap_total, d)
            /\ Opposite.fee_total = sm.fee_total
            /\ QAdd(Opposite.fx_fee_inclusive, QAbs(sm.fee_total, d), d)
                  = QNeg(QAdd(sm.fx_fee_inclusive, QAbs(sm.fee_total, d), d), d)
            /\ RawSignFlipped = sm
            /\ dir_sign = 1 => sm.swap_total.yen >= 0
            /\ dir_sign = 0 - 1 => sm.swap_total.yen <= 0

C6_Witness ==
    /\ Ran
    /\ dir_sign = 0 - 1
    /\ swap_per_lot_per_day = 0 - 150
    /\ ss.lots = 2
    /\ ss.days = 3
    /\ ss.s0 = 78
    /\ ss.s1 = 82
    /\ sm.swap_total.yen = 0 - 900
    /\ Opposite.swap_total.yen = 900

\* ------------------------------------------------- claims about the sidebar
Sizing == {"deposit", "per_lot_margin", "leff", "lots", "s0"}

\* the functions the edit of each sizing field runs
ExpectedLog ==
    [f \in Sizing |->
        CASE f = "deposit" -> <<"on_change_deposit", "_recalc_from_leff">>
          [] f = "per_lot_margin" -> <<"on_change_margin", "_recalc_from_leff">>
          [] f = "leff" -> <<"on_change_leff", "_recalc_from_leff">>
          [] f = "lots" -> <<"on_change_lots", "_recalc_from_lots">>
          [] f = "s0" -> <<"on_change_s0", "_recalc_from_leff">>]

Handlers == {ExpectedLog[f][1] : f \in Sizing}

Recalcs == {ExpectedLog[f][2] : f \in Sizing}

Count(seq, S) == Cardinality({i \in 1..Len(seq) : seq[i] \in S})

\* floor(deposit / max(1, perLotMargin)), at least 1
MarginCap(deposit, margin) == Max(1, deposit \div Max(1, margin))

\* C1: in every reachable state lots >= 1 and
\* lots <= floor(deposit / perLotMargin).
C1_LotsWithinCap ==
    pc = "ui" =>
        /\ ss.lots >= 1
        /\ ss.per_lot_margin > 0 => ss.lots <= ss.deposit \div ss.per_lot_margin

\* C2: the leverage -> lots recalculation followed by the lots -> leverage
\* back-computation, applied a second time, gives the same lots and the same
\* rounded leverage as the first application.
C2_Idempotent ==
    pc = "ui" =>
        \A a \in recalc_from_leff(Start(ss)) : \A c1 \in recalc_from_lots(a) :
        \A b \in recalc_from_leff(Start(c1.ss)) : \A c2 \in recalc_from_lots(b) :
            /\ c2.ss.lots = c1.ss.lots
            /\ c2.ss.leff = c1.ss.leff

Locked == Start([ss EXCEPT !.lock = TRUE])

\* C3: one edit runs at most one handler and at most one recalculation, a
\* handler entered with the lock set changes nothing, the lock is false
\* before and after every edit, and the edit of a sizing field always runs
\* its handler's recalculation (no edit is ignored).
C3_OneSettledState ==
    [][/\ ss.lock = FALSE
       /\ ss'.lock = FALSE
       /\ Count(log', Handlers) <= 1
       /\ Count(log', Recalcs) <= 1
       /\ edited' \in Sizing => log' = ExpectedLog[edited']
       /\ edited' \notin Sizing => log' = <<>>
       /\ on_change_deposit(Locked) = {Locked}
       /\ on_change_margin(Locked) = {Locked}
       /\ on_change_leff(Locked) = {Locked}
       /\ on_change_lots(Locked) = {Locked}
       /\ on_change_s0(Locked) = {Locked}]_vars

C3_Witness ==
    /\ edited = "lots"
    /\ entered = 300
    /\ log = <<"on_change_lots", "_recalc_from_lots">>
    /\ ss.lock = FALSE
    /\ ss.lots = 250
    /\ ss.leff = 1950

NoLeverage == [q |-> 0, r |-> 0, d |-> 1]

ClaimedLots(leff, deposit, margin, s0) ==
    Min(Max(1, LevNotional(leff, deposit) \div (s0 * 100)), MarginCap(deposit, margin))

\* C9: after an edit of deposit, per-lot margin or start rate (lots not being
\* the field edited before), lots is the leverage-derived value capped by the
\* margin cap, both taken at the values in effect after the edit, and the
\* leverage is unchanged.
C9_Original ==
    [][(edited' \in {"deposit", "per_lot_margin", "s0"} /\ edited # "lots"
            /\ ss'.s0 > 0) =>
           /\ ss'.lots = ClaimedLots(ss'.leff, ss'.deposit, ss'.per_lot_margin, ss'.s0)
           /\ ss'.leff = ss.leff]_vars

\* the hundredths nearest to x = q + r / d
Nearest(x) == {x.q + k : k \in {j \in {0, 1} : IF j = 0 THEN 2 * x.r <= x.d
                                                        ELSE 2 * x.r >= x.d}}

OthersKept ==
    /\ ss'.deposit = ss.deposit
    /\ ss'.per_lot_margin = ss.per_lot_margin
    /\ ss'.s0 = ss.s0
    /\ ss'.s1 = ss.s1
    /\ ss'.days = ss.days

\* C10 as stated: after a lots edit, lots is the entered value clamped into
\* [1, margin cap], leverage is max(0.1, round(lots * s0 * 100000 / deposit, 2))
\* of the clamped lots, and deposit, margin, s0, s1 and days are unchanged.
C10_Original ==
    [][edited' = "lots" =>
           /\ ss'.lots = Max(1, Min(entered', MarginCap(ss.deposit, ss.per_lot_margin)))
           /\ ss.deposit > 0 =>
                  ss'.leff \in {Max(LeffMin, r) :
                                   r \in Nearest(LeverageOf(ss'.lots, ss.s0, ss.deposit))}
           /\ OthersKept]_vars

\* C10 amended: as stated when deposit > 0 and start rate > 0; when deposit = 0
\* or start rate <= 0 the lots are clamped all the same and the held leverage
\* is left unchanged.
C10_LotsEdit ==
    [][edited' = "lots" =>
           /\ ss'.lots = Max(1, Min(entered', MarginCap(ss.deposit, ss.per_lot_margin)))
           /\ (ss.deposit > 0 /\ ss.s0 > 0) =>
                  ss'.leff \in {Max(LeffMin, r) :
                                   r \in Nearest(LeverageOf(ss'.lots, ss.s0, ss.deposit))}
           /\ (ss.deposit = 0 \/ ss.s0 <= 0) => ss'.leff = ss.leff
           /\ OthersKept]_vars

C10_Witness ==
    /\ edited = "lots"
    /\ entered = 300
    /\ ss.deposit = 8000000
    /\ ss.per_lot_margin = 50000
    /\ ss.s0 = 78
    /\ ss.lots = 160
    /\ ss.leff = 1560

====
